---- MODULE Spec2Model ----
(***************************************************************************)
(* A model of the mealapi recipe backend: the SQL tables (users, recipes,  *)
(* ratings, comments, reports) and the request handlers that read and      *)
(* write them, router -> service -> repository.                            *)
(*                                                                         *)
(* Conventions                                                             *)
(*   - a text value is a tuple of characters (one-character strings; the   *)
(*     non-ASCII characters carry a name, e.g. "e_acute");                 *)
(*   - NULL is 0 in id columns (ids start at 1), NoText in text columns,   *)
(*     NoTime in timestamp columns and NullAvg for average_rating;         *)
(*   - a number that need not be an integer (an average, a threshold) is a *)
(*     fraction <<num, den>>, compared by cross multiplication.            *)
(*   - where the repository holds two copies of a service, the model       *)
(*     follows the copy whose methods the routers call; CommentService is  *)
(*     modelled in both copies (update_comment / themealapi_update_comment *)
(*     and likewise for delete_comment).                                   *)
(*   - a handler is one step, except where requests overlap: there the     *)
(*     handler is split at an await, and in_flight holds, per request      *)
(*     being processed, what it has read and the statement it runs next.   *)
(***************************************************************************)
EXTENDS Integers, Sequences, FiniteSets, TLC

VARIABLES user_table, recipe_table, rating_table, comment_table, report_table,
          seq, response, in_flight

vars == <<user_table, recipe_table, rating_table, comment_table, report_table,
          seq, response, in_flight>>

(***************************************************************************)
(* Bounds of the model.                                                    *)
(***************************************************************************)
MaxUsers == 2
MaxRecipes == 1
MaxComments == 2
MaxRatings == 2
MaxReports == 1
MaxCalls == 2
MaxText == 3

NULL == 0
NoText == "None"
NoTime == "None"
Now == "now"

(***************************************************************************)
(* Text: characters, lower(), strip(), unicodedata, the 'in' operator.     *)
(***************************************************************************)
Whitespace == {" "}

\* str.lower() on one character
LowerChar(c) ==
    CASE c = "A" -> "a"
      [] c = "E" -> "e"
      [] c = "G" -> "g"
      [] c = "L" -> "l"
      [] c = "K" -> "k"
      [] c = "S" -> "s"
      [] c = "T" -> "t"
      [] c = "M" -> "m"
      [] c = "E_acute" -> "e_acute"
      [] c = "L_stroke" -> "l_stroke"
      [] OTHER -> c

lower(s) == [i \in 1..Len(s) |-> LowerChar(s[i])]

\* unicodedata.normalize('NFKD', c) for one character: e-acute decomposes into
\* e followed by the combining acute accent; l-stroke has no decomposition;
\* the trade mark sign, which str.lower leaves alone, has the compatibility
\* decomposition "TM".
NFKDChar(c) ==
    CASE c = "e_acute" -> <<"e", "acute">>
      [] c = "E_acute" -> <<"E", "acute">>
      [] c = "trade_mark" -> <<"T", "M">>
      [] OTHER -> <<c>>

RECURSIVE NFKD(_)
NFKD(s) == IF s = <<>> THEN <<>> ELSE NFKDChar(Head(s)) \o NFKD(Tail(s))

\* unicodedata.category(c) = 'Mn'
IsMn(c) == c = "acute"

RECURSIVE DropMn(_)
DropMn(s) ==
    IF s = <<>> THEN <<>>
    ELSE IF IsMn(Head(s)) THEN DropMn(Tail(s))
    ELSE <<Head(s)>> \o DropMn(Tail(s))

normalize_string(s) == DropMn(NFKD(lower(s)))

RECURSIVE lstrip(_)
lstrip(s) ==
    IF s # <<>> /\ Head(s) \in Whitespace THEN lstrip(Tail(s)) ELSE s

RECURSIVE rstrip(_)
rstrip(s) ==
    IF s # <<>> /\ s[Len(s)] \in Whitespace
    THEN rstrip(SubSeq(s, 1, Len(s) - 1)) ELSE s

strip(s) == rstrip(lstrip(s))

\* Python's  a in b  on strings: a is a contiguous substring of b
StrIn(a, b) ==
    \E i \in 0..(Len(b) - Len(a)) : SubSeq(b, i + 1, i + Len(a)) = a

\* index of the first ':' of s, 0 when there is none
FirstColon(s) ==
    IF \E i \in 1..Len(s) : s[i] = ":"
    THEN CHOOSE i \in 1..Len(s) : s[i] = ":" /\ \A j \in 1..(i - 1) : s[j] # ":"
    ELSE 0

\* ing_str.split(':', 1)[1] if ':' in ing_str else ing_str
IngredientName(ing_str) ==
    IF FirstColon(ing_str) # 0
    THEN SubSeq(ing_str, FirstColon(ing_str) + 1, Len(ing_str))
    ELSE ing_str

(***************************************************************************)
(* Fractions.                                                              *)
(***************************************************************************)
NullAvg == <<0, 0>>
Frac(n, d) == <<n, d>>
IsNullAvg(q) == q[2] = 0
FracEq(p, q) ==
    IF IsNullAvg(p) \/ IsNullAvg(q) THEN p = q
    ELSE p[1] * q[2] = q[1] * p[2]
FracGeq(p, q) == p[1] * q[2] >= q[1] * p[2]

RECURSIVE SumSeq(_)
SumSeq(s) == IF s = <<>> THEN 0 ELSE Head(s) + SumSeq(Tail(s))

\* round(x, 2) of x = n/d >= 0: the nearest multiple of 1/100, a tie going to
\* the even one
Round2(n, d) ==
    LET q == (100 * n) \div d
        r == (100 * n) % d
    IN  IF 2 * r < d THEN Frac(q, 100)
        ELSE IF 2 * r > d THEN Frac(q + 1, 100)
        ELSE IF q % 2 = 0 THEN Frac(q, 100) ELSE Frac(q + 1, 100)

(***************************************************************************)
(* Rows in the order the store returns them: by primary key.               *)
(***************************************************************************)
RECURSIVE RowsById(_)
RowsById(T) ==
    IF T = {} THEN <<>>
    ELSE LET r == CHOOSE x \in T : \A y \in T : x.id <= y.id
         IN  <<r>> \o RowsById(T \ {r})


(***************************************************************************)
(* Users.                                                                  *)
(***************************************************************************)
\* the addresses clients register with, one per user the model allows
Emails == { <<"user", i, "@x">> : i \in 1..MaxUsers }
UserRole == {"ADMIN", "USER"}

GetUserByUuid(uuid) ==
    IF \E u \in user_table : u.id = uuid
    THEN CHOOSE u \in user_table : u.id = uuid
    ELSE [id |-> NULL, email |-> NoText, role |-> NoText]

\* UserService.is_admin
is_admin(user_uuid) ==
    LET user == GetUserByUuid(user_uuid)
    IN  user.id # NULL /\ user.role = "ADMIN"

\* The handlers of the comment and report routers run inside
\* try / except Exception, which answers 500 for every exception that is
\* not a JWTError or a ValueError: an HTTPException raised by the handler or
\* by the service is answered 500 whatever status it was raised with.  The
\* recipe and user routers let an HTTPException through.  422 is the answer
\* of request validation, which is given before a handler runs.
CatchAllHandlers ==
    {"add_comment", "update_comment", "delete_comment",
     "create_report", "update_report_status", "delete_report"}

router_status(op, code) ==
    IF code \in {200, 201, 422} THEN code
    ELSE IF op \in CatchAllHandlers THEN 500
    ELSE code

\* What the last request was and how it was answered: the operation, the
\* requester, the row it addressed, its other parameters, the status the
\* handler or the service raised (200 or 201 on success), the status the
\* router answers and the DTOs returned.
Resp(op, who, target, input, code, body) ==
    [op |-> op, who |-> who, target |-> target, input |-> input,
     code |-> code, status |-> router_status(op, code), body |-> body]

\* Requests that are being processed: a handler is a coroutine, and between
\* two of its awaits another request may run.  A slot holds what its request
\* has read so far and the statement it runs next.
Calls == 1..MaxCalls
Idle == [op |-> "idle"]
Registering(c) == in_flight[c].op = "register_user"

\* POST /register, up to its first statement: get_by_email(user.email)
register_user_get_by_email(c, email, role) ==
    /\ in_flight[c] = Idle
    /\ seq.user + Cardinality({d \in Calls : Registering(d)}) < MaxUsers
    /\ IF \E u \in user_table : u.email = email
       THEN /\ response' = Resp("register_user", NULL, NULL, <<email, role, "get_by_email">>, 400, <<>>)
            /\ UNCHANGED in_flight
       ELSE /\ in_flight' = [in_flight EXCEPT ![c] =
                                [op |-> "register_user", email |-> email, role |-> role]]
            /\ UNCHANGED response
    /\ UNCHANGED <<user_table, recipe_table, rating_table, comment_table,
                   report_table, seq>>

\* the INSERT of register_user on a table whose email column is not unique
register_user_insert_not_unique(c) ==
    /\ Registering(c)
    /\ user_table' = user_table \cup
          {[id |-> seq.user + 1, email |-> in_flight[c].email, role |-> in_flight[c].role]}
    /\ seq' = [seq EXCEPT !.user = @ + 1]
    /\ response' = Resp("register_user", NULL, NULL,
                        <<in_flight[c].email, in_flight[c].role, "insert">>, 201, <<>>)
    /\ in_flight' = [in_flight EXCEPT ![c] = Idle]
    /\ UNCHANGED <<recipe_table, rating_table, comment_table, report_table>>

\* POST /register, from user_table.insert() on: the email column is unique,
\* so the INSERT of an address stored meanwhile raises, and the router
\* answers every exception with 400
register_user_insert(c) ==
    /\ Registering(c)
    /\ LET email == in_flight[c].email
           role == in_flight[c].role
       IN  IF \E u \in user_table : u.email = email
           THEN /\ response' = Resp("register_user", NULL, NULL, <<email, role, "insert">>, 400, <<>>)
                /\ UNCHANGED <<user_table, seq>>
           ELSE /\ user_table' = user_table \cup
                       {[id |-> seq.user + 1, email |-> email, role |-> role]}
                /\ seq' = [seq EXCEPT !.user = @ + 1]
                /\ response' = Resp("register_user", NULL, NULL, <<email, role, "insert">>, 201, <<>>)
    /\ in_flight' = [in_flight EXCEPT ![c] = Idle]
    /\ UNCHANGED <<recipe_table, rating_table, comment_table, report_table>>

\* POST /register: UserRepository.register_user
register_user(email, role) ==
    /\ UNCHANGED in_flight
    /\ seq.user < MaxUsers
    /\ IF \E u \in user_table : u.email = email
       THEN /\ response' = Resp("register_user", NULL, NULL, <<email, role>>, 400, <<>>)
            /\ UNCHANGED <<user_table, seq>>
       ELSE /\ user_table' = user_table \cup
                   {[id |-> seq.user + 1, email |-> email, role |-> role]}
            /\ seq' = [seq EXCEPT !.user = @ + 1]
            /\ response' = Resp("register_user", NULL, NULL, <<email, role>>, 201, <<>>)
    /\ UNCHANGED <<recipe_table, rating_table, comment_table, report_table>>

\* verify_admin_token: the token names the requester and the role it was
\* issued with (generate_user_token: the role stored at login)
verify_admin_token(user_uuid, token_role) ==
    LET user == GetUserByUuid(user_uuid) IN
    IF user.id = NULL THEN 404
    ELSE IF token_role # user.role THEN 401
    ELSE IF user.role = "ADMIN" THEN 200
    ELSE 403

\* PUT /{user_id}/role: router update_user_role.  The handler calls
\* service.update_user_role, which UserService does not define (its method is
\* update_role): for an administrator the call raises AttributeError and the
\* request is answered 500 with no row written.  No operation changes a
\* stored role, so the role of a token is the stored one.
update_user_role(user_uuid, user_id, role) ==
    /\ UNCHANGED in_flight
    /\ user_uuid \in {u.id : u \in user_table}
    /\ LET verified == verify_admin_token(user_uuid, GetUserByUuid(user_uuid).role) IN
       response' = Resp("update_user_role", user_uuid, user_id, <<role>>,
                        IF verified = 200 THEN 500 ELSE verified, <<>>)
    /\ UNCHANGED <<user_table, recipe_table, rating_table, comment_table,
                   report_table, seq>>

(***************************************************************************)
(* Recipes.                                                                *)
(***************************************************************************)
T_egg == <<"e", "g", "g">>
T_Egg == <<"E", "g", "g">>
T_yolk == <<"e", "g", "g", " ", "y", "o", "l", "k">>
T_soup == <<"s", "o", "u", "p">>
T_Soup == <<"S", "o", "u", "p">>
T_cafe == <<"c", "a", "f", "e_acute">>
T_cafe_plain == <<"c", "a", "f", "e">>
T_mix == <<"m", "i", "x">>
Amount(a, name) == <<a, ":">> \o name

\* RecipeIn.validate_ingredients: every entry has a ':' with a non-empty
\* amount and name
IngredientsValid(v) ==
    \A i \in 1..Len(v) :
        /\ FirstColon(v[i]) # 0
        /\ FirstColon(v[i]) > 1
        /\ FirstColon(v[i]) < Len(v[i])

\* RecipeIn.validate_ingredients: f"{amount.strip()}:{name.strip().lower()}"
NormalizeIngredient(ing) ==
    strip(SubSeq(ing, 1, FirstColon(ing) - 1)) \o <<":">>
        \o lower(strip(IngredientName(ing)))

\* RecipeIn.validate_tags: diacritics removed, lowercased
NormalizeTag(tag) == DropMn(NFKD(lower(tag)))

\* RecipeMapper.ingredients_to_strings
ingredients_to_strings(ingredients) ==
    [i \in 1..Len(ingredients) |-> lower(ingredients[i])]

\* RecipeMapper.validate
MaxPreparationTime == 1440
MapperMaxTags == 10
MapperMaxSteps == 20
validate(recipe) ==
    /\ recipe.preparation_time > 0
    /\ recipe.preparation_time <= MaxPreparationTime
    /\ strip(recipe.name) # <<>>
    /\ strip(recipe.category) # <<>>
    /\ recipe.ingredients # <<>>
    /\ Len(recipe.tags) <= MapperMaxTags
    /\ Len(recipe.steps) <= MapperMaxSteps

\* The request bodies the model submits (RecipeIn as sent by the client):
\* two that pass validation and one whose preparation time is out of range.
EggSoup ==
    [name |-> T_Egg, category |-> T_Soup,
     ingredients |-> <<Amount("2", T_Egg), Amount("1", T_yolk)>>,
     preparation_time |-> 30, steps |-> <<T_mix>>, tags |-> <<T_cafe>>]
PlainSoup ==
    [name |-> T_soup, category |-> T_soup,
     ingredients |-> <<Amount("1", T_egg)>>,
     preparation_time |-> 10, steps |-> <<>>, tags |-> <<>>]
InstantSoup == [PlainSoup EXCEPT !.preparation_time = 0]
\* a body RecipeIn accepts (the name is one character long) and
\* RecipeMapper.validate refuses (the name is blank)
BlankSoup == [PlainSoup EXCEPT !.name = <<" ">>]
RecipeInputs == {EggSoup, PlainSoup, InstantSoup}
\* EggSoup with the given numbers of steps and of tags
LongSoup(steps, tags) ==
    [EggSoup EXCEPT !.steps = [i \in 1..steps |-> T_mix],
                    !.tags = [i \in 1..tags |-> T_Soup]]
\* bodies at and just over each limit on the number of steps and of tags
LimitInputs ==
    { LongSoup(steps, 1) : steps \in {1, 20, 21, 50, 51} } \cup
    { LongSoup(1, tags) : tags \in {10, 11, 20, 21} }

\* RecipeIn after its field validators ran (pydantic, at request parsing)
RecipeIn(body) ==
    [body EXCEPT
       !.ingredients = [i \in 1..Len(body.ingredients) |->
                          NormalizeIngredient(body.ingredients[i])],
       !.tags = [i \in 1..Len(body.tags) |-> NormalizeTag(body.tags[i])]]

RecipeInMaxSteps == 50
RecipeInMaxTags == 20
RecipeInAccepts(body) ==
    /\ Len(body.steps) <= RecipeInMaxSteps
    /\ Len(body.tags) <= RecipeInMaxTags
    /\ body.name # <<>>
    /\ body.preparation_time > 0
    /\ body.preparation_time <= MaxPreparationTime
    /\ body.category # <<>>
    /\ IngredientsValid(body.ingredients)
    /\ \A i \in 1..Len(body.tags) : body.tags[i] # <<>>
    /\ \A i \in 1..Len(body.steps) : body.steps[i] # <<>>

GetRecipe(recipe_id) ==
    IF \E r \in recipe_table : r.id = recipe_id
    THEN CHOOSE r \in recipe_table : r.id = recipe_id
    ELSE [id |-> NULL]

RecipeExists(recipe_id) == \E r \in recipe_table : r.id = recipe_id

\* RecipeDTO.from_record: the declared fields are kept, anything else in the
\* record is ignored; avg is the record's 'average_rating' entry, NullAvg when
\* the record has none (the field's default).
RecipeDTO(rec, avg) == [id |-> rec.id, average_rating |-> avg]

RatingsOf(recipe_id) ==
    SelectSeq(RowsById(rating_table), LAMBDA r : r.recipe_id = recipe_id)

RatingValues(ratings) == [i \in 1..Len(ratings) |-> ratings[i].value]

\* What the call to the text-detection service comes to: the connection
\* fails, the answer is not JSON, the JSON has no 'score', its 'score' is
\* null, or it has a number as 'score'.
Sapling(kind, score) == [kind |-> kind, score |-> score]
SaplingUnreachable == Sapling("network_error", NullAvg)
SaplingFailures ==
    {SaplingUnreachable, Sapling("not_json", NullAvg),
     Sapling("null_score", NullAvg)}
SaplingAnswers ==
    SaplingFailures \cup
    {Sapling("no_score", NullAvg), Sapling("score", Frac(1, 2)),
     Sapling("score", Frac(7, 8))}

\* the value of _detect_ai_text when an exception leaves it
Raised == "raised"

\* _detect_ai_text without its try / except: a failed call raises
detect_ai_text_unguarded(sapling) ==
    IF sapling.kind = "score" THEN Round2(sapling.score[1], sapling.score[2])
    ELSE IF sapling.kind = "no_score" THEN Frac(0, 1)
    ELSE Raised

\* RecipeRepository._detect_ai_text: round(score, 2), the default 0.0 for a
\* JSON object without 'score', and 0.0 for every exception (the connection,
\* response.json(), round(None, 2))
detect_ai_text(sapling) ==
    IF sapling.kind = "score" THEN Round2(sapling.score[1], sapling.score[2])
    ELSE Frac(0, 1)

\* RecipeRepository.add_recipe: the row INSERTed for a recipe; the
\* average_rating column is written as 0.0 and no statement updates it
NewRecipeRow(recipe_id, user_uuid, recipe) ==
    [id |-> recipe_id,
     name |-> lower(recipe.name),
     category |-> lower(recipe.category),
     ingredients |-> ingredients_to_strings(recipe.ingredients),
     preparation_time |-> recipe.preparation_time,
     author |-> user_uuid,
     created_at |-> Now,
     steps |-> recipe.steps,
     tags |-> recipe.tags,
     average_rating |-> Frac(0, 1),
     ai_detected |-> Frac(0, 1)]

\* POST /recipes: router create_recipe -> RecipeService.add_recipe ->
\* RecipeRepository.add_recipe, with what the detection call comes to.  An
\* exception inside add_recipe is raised again before the INSERT.
create_recipe(user_uuid, body, sapling) ==
    /\ UNCHANGED in_flight
    /\ seq.recipe < MaxRecipes
    /\ user_uuid \in {u.id : u \in user_table}
    /\ IF ~RecipeInAccepts(body)
       THEN /\ response' = Resp("add_recipe", user_uuid, NULL, <<body, sapling>>, 422, <<>>)
            /\ UNCHANGED <<recipe_table, seq>>
       ELSE LET recipe == RecipeIn(body)
                ai_score == detect_ai_text(sapling)
            IN
            IF ~validate(recipe) \/ ai_score = Raised
            THEN /\ response' = Resp("add_recipe", user_uuid, NULL, <<body, sapling>>, 500, <<>>)
                 /\ UNCHANGED <<recipe_table, seq>>
            ELSE LET row == [NewRecipeRow(seq.recipe + 1, user_uuid, recipe)
                               EXCEPT !.ai_detected = ai_score]
                 IN  /\ recipe_table' = recipe_table \cup {row}
                     /\ seq' = [seq EXCEPT !.recipe = @ + 1]
                     /\ response' = Resp("add_recipe", user_uuid, NULL, <<body, sapling>>, 200,
                                         <<RecipeDTO(row, row.average_rating)>>)
    /\ UNCHANGED <<user_table, rating_table, comment_table, report_table>>

\* recipe creation while the detection service cannot be reached
add_recipe(user_uuid, body) == create_recipe(user_uuid, body, SaplingUnreachable)

\* DELETE FROM recipes WHERE id = recipe_id: ratings, comments and reports of
\* the recipe go with it (ON DELETE CASCADE), and so do the reports of the
\* deleted comments
repo_delete_recipe(recipe_id) ==
    LET gone == { c.id : c \in { x \in comment_table : x.recipe_id = recipe_id } }
    IN  /\ recipe_table' = { r \in recipe_table : r.id # recipe_id }
        /\ rating_table' = { r \in rating_table : r.recipe_id # recipe_id }
        /\ comment_table' = { c \in comment_table : c.recipe_id # recipe_id }
        /\ report_table' = { r \in report_table :
                               r.recipe_id # recipe_id /\ r.comment_id \notin gone }

\* sum(values) / len(values), unrounded, 0.0 without ratings
\* (get_by_tag, update_recipe)
AverageOrZero(values) ==
    IF values # <<>> THEN Frac(SumSeq(values), Len(values)) ELSE Frac(0, 1)

\* round(sum(values) / len(values), 2), None without ratings
AverageRounded(values) ==
    IF values # <<>> THEN Round2(SumSeq(values), Len(values)) ELSE NullAvg

\* update_recipe without the router's ownership check
update_recipe_unchecked(user_uuid, recipe_id, body) ==
    /\ UNCHANGED in_flight
    /\ user_uuid \in {u.id : u \in user_table}
    /\ LET existing == GetRecipe(recipe_id) IN
       IF ~RecipeInAccepts(body)
       THEN /\ response' = Resp("update_recipe", user_uuid, recipe_id, <<body>>, 422, <<>>)
            /\ UNCHANGED recipe_table
       ELSE IF existing.id = NULL
       THEN /\ response' = Resp("update_recipe", user_uuid, recipe_id, <<body>>, 404, <<>>)
            /\ UNCHANGED recipe_table
       ELSE LET recipe == [RecipeIn(body) EXCEPT !.steps = <<>>, !.tags = <<>>]
                row == [existing EXCEPT
                          !.name = lower(recipe.name),
                          !.category = lower(recipe.category),
                          !.ingredients = ingredients_to_strings(recipe.ingredients),
                          !.preparation_time = recipe.preparation_time,
                          !.steps = recipe.steps,
                          !.tags = recipe.tags]
            IN  /\ recipe_table' = (recipe_table \ {existing}) \cup {row}
                /\ response' = Resp("update_recipe", user_uuid, recipe_id, <<body>>, 200,
                       <<RecipeDTO(row, AverageOrZero(
                             RatingValues(RatingsOf(recipe_id))))>>)
    /\ UNCHANGED <<user_table, rating_table, comment_table, report_table, seq>>

\* update_recipe with RecipeMapper.validate run after the UPDATE statement
update_recipe_validating_late(user_uuid, recipe_id, body) ==
    /\ UNCHANGED in_flight
    /\ user_uuid \in {u.id : u \in user_table}
    /\ LET existing == GetRecipe(recipe_id) IN
       IF ~RecipeInAccepts(body)
       THEN /\ response' = Resp("update_recipe", user_uuid, recipe_id, <<body>>, 422, <<>>)
            /\ UNCHANGED recipe_table
       ELSE IF existing.id = NULL
       THEN /\ response' = Resp("update_recipe", user_uuid, recipe_id, <<body>>, 404, <<>>)
            /\ UNCHANGED recipe_table
       ELSE IF existing.author # user_uuid /\ ~is_admin(user_uuid)
       THEN /\ response' = Resp("update_recipe", user_uuid, recipe_id, <<body>>, 403, <<>>)
            /\ UNCHANGED recipe_table
       ELSE LET recipe == [RecipeIn(body) EXCEPT !.steps = <<>>, !.tags = <<>>]
                row == [existing EXCEPT
                          !.name = lower(recipe.name),
                          !.category = lower(recipe.category),
                          !.ingredients = ingredients_to_strings(recipe.ingredients),
                          !.preparation_time = recipe.preparation_time,
                          !.steps = recipe.steps,
                          !.tags = recipe.tags]
            IN  /\ recipe_table' = (recipe_table \ {existing}) \cup {row}
                /\ response' = Resp("update_recipe", user_uuid, recipe_id, <<body>>,
                       IF validate(recipe) THEN 200 ELSE 500,
                       IF validate(recipe)
                       THEN <<RecipeDTO(row, AverageOrZero(
                                 RatingValues(RatingsOf(recipe_id))))>>
                       ELSE <<>>)
    /\ UNCHANGED <<user_table, rating_table, comment_table, report_table, seq>>

\* PUT /recipes/{recipe_id}: router update_recipe -> RecipeService.update_recipe
\* -> RecipeRepository.update_recipe.  The router builds the Recipe without
\* steps and tags.
update_recipe(user_uuid, recipe_id, body) ==
    /\ UNCHANGED in_flight
    /\ user_uuid \in {u.id : u \in user_table}
    /\ LET existing == GetRecipe(recipe_id) IN
       IF ~RecipeInAccepts(body)
       THEN /\ response' = Resp("update_recipe", user_uuid, recipe_id, <<body>>, 422, <<>>)
            /\ UNCHANGED recipe_table
       ELSE IF existing.id = NULL
       THEN /\ response' = Resp("update_recipe", user_uuid, recipe_id, <<body>>, 404, <<>>)
            /\ UNCHANGED recipe_table
       ELSE IF existing.author # user_uuid /\ ~is_admin(user_uuid)
       THEN /\ response' = Resp("update_recipe", user_uuid, recipe_id, <<body>>, 403, <<>>)
            /\ UNCHANGED recipe_table
       ELSE LET recipe == [RecipeIn(body) EXCEPT !.steps = <<>>, !.tags = <<>>] IN
            IF ~validate(recipe)
            THEN /\ response' = Resp("update_recipe", user_uuid, recipe_id, <<body>>, 500, <<>>)
                 /\ UNCHANGED recipe_table
            ELSE LET row == [existing EXCEPT
                               !.name = lower(recipe.name),
                               !.category = lower(recipe.category),
                               !.ingredients = ingredients_to_strings(recipe.ingredients),
                               !.preparation_time = recipe.preparation_time,
                               !.steps = recipe.steps,
                               !.tags = recipe.tags]
                 IN  /\ recipe_table' = (recipe_table \ {existing}) \cup {row}
                     /\ response' = Resp("update_recipe", user_uuid, recipe_id, <<body>>, 200,
                          <<RecipeDTO(row, AverageOrZero(
                                RatingValues(RatingsOf(recipe_id))))>>)
    /\ UNCHANGED <<user_table, rating_table, comment_table, report_table, seq>>

\* DELETE /recipes/{recipe_id}: router delete_recipe -> RecipeService.delete_recipe
\* -> RecipeRepository.delete_recipe
delete_recipe(user_uuid, recipe_id) ==
    /\ UNCHANGED in_flight
    /\ user_uuid \in {u.id : u \in user_table}
    /\ LET existing == GetRecipe(recipe_id) IN
       IF existing.id = NULL
       THEN /\ response' = Resp("delete_recipe", user_uuid, recipe_id, <<>>, 404, <<>>)
            /\ UNCHANGED <<recipe_table, rating_table, comment_table, report_table>>
       ELSE IF existing.author # user_uuid /\ ~is_admin(user_uuid)
       THEN /\ response' = Resp("delete_recipe", user_uuid, recipe_id, <<>>, 403, <<>>)
            /\ UNCHANGED <<recipe_table, rating_table, comment_table, report_table>>
       ELSE /\ repo_delete_recipe(recipe_id)
            /\ response' = Resp("delete_recipe", user_uuid, recipe_id, <<>>, 200, <<>>)
    /\ UNCHANGED <<user_table, seq>>

(***************************************************************************)
(* Recipe queries.  Every query leaves the tables alone and answers with   *)
(* the list of RecipeDTOs.                                                 *)
(***************************************************************************)
Answer(op, input, body) ==
    /\ UNCHANGED in_flight
    /\ response' = Resp(op, NULL, NULL, input, IF body = <<>> THEN 404 ELSE 200, body)
    /\ UNCHANGED <<user_table, recipe_table, rating_table, comment_table,
                   report_table, seq>>

\* the DTO of one recipe with round(mean, 2) / None as its average
\* (get_all_recipes, get_by_category, get_by_preparation_time)
DtoRounded(rec) ==
    RecipeDTO(rec, AverageRounded(RatingValues(RatingsOf(rec.id))))

\* the DTOs of the given recipe rows, each with round(mean, 2) / None
DtosRounded(rows) == [i \in 1..Len(rows) |-> DtoRounded(rows[i])]

\* RecipeRepository._fetch_recipes_with_related: avg(value) over the rows of
\* the recipe in the join with ratings and comments; every rating occurs once
\* per comment of the recipe, so the window average is the mean of the
\* ratings.  rows are the recipes the query's WHERE clause selects.
fetch_recipes_with_related(rows) == DtosRounded(rows)

\* GET /get-all: RecipeRepository.get_all_recipes
get_all_recipes ==
    Answer("get_all_recipes", <<>>, DtosRounded(RowsById(recipe_table)))

\* GET /recipes/{recipe_id}: RecipeRepository.get_by_id; the record is the
\* recipe row, whose average_rating column goes into the DTO
get_by_id(recipe_id) ==
    LET rows == SelectSeq(RowsById(recipe_table), LAMBDA rec : rec.id = recipe_id)
    IN  Answer("get_by_id", <<recipe_id>>,
               [i \in 1..Len(rows) |-> RecipeDTO(rows[i], rows[i].average_rating)])

\* GET /recipes/name/{recipe_name}: name ILIKE %recipe_name%
get_by_name(recipe_name) ==
    Answer("get_by_name", <<recipe_name>>,
           fetch_recipes_with_related(
               SelectSeq(RowsById(recipe_table),
                         LAMBDA rec : StrIn(lower(recipe_name), lower(rec.name)))))

\* GET /recipes/category/{category}: category ILIKE %category.lower()%
get_by_category(category) ==
    Answer("get_by_category", <<category>>,
           DtosRounded(
               SelectSeq(RowsById(recipe_table),
                         LAMBDA rec : StrIn(lower(category), lower(rec.category)))))

\* GET /recipes/tag/{tag}: array_position(tags, tag.lower()) is not NULL;
\* the average is the unrounded mean, 0.0 without ratings
get_by_tag(tag) ==
    LET rows == SelectSeq(RowsById(recipe_table),
                          LAMBDA rec : \E i \in 1..Len(rec.tags) :
                                           rec.tags[i] = lower(tag))
    IN  Answer("get_by_tag", <<tag>>,
               [i \in 1..Len(rows) |->
                  RecipeDTO(rows[i],
                            AverageOrZero(RatingValues(RatingsOf(rows[i].id))))])

\* GET /recipes/preparation_time/{preparation_time}
get_by_preparation_time(preparation_time) ==
    IF preparation_time <= 0
    THEN /\ response' = Resp("get_by_preparation_time", NULL, NULL, <<preparation_time>>, 500, <<>>)
         /\ UNCHANGED <<user_table, recipe_table, rating_table, comment_table,
                        report_table, seq, in_flight>>
    ELSE Answer("get_by_preparation_time", <<preparation_time>>,
                DtosRounded(
                    SelectSeq(RowsById(recipe_table),
                              LAMBDA rec : rec.preparation_time = preparation_time)))

\* GET /recipes/rating/{average_rating}: the recipes with ratings whose
\* avg(value) >= average_rating (a fraction)
get_by_average_rating(average_rating) ==
    IF ~(FracGeq(average_rating, Frac(0, 1)) /\ FracGeq(Frac(5, 1), average_rating))
    THEN /\ response' = Resp("get_by_average_rating", NULL, NULL, <<average_rating>>, 500, <<>>)
         /\ UNCHANGED <<user_table, recipe_table, rating_table, comment_table,
                        report_table, seq, in_flight>>
    ELSE Answer("get_by_average_rating", <<average_rating>>,
                fetch_recipes_with_related(
                    SelectSeq(RowsById(recipe_table),
                              LAMBDA rec :
                                  LET values == RatingValues(RatingsOf(rec.id)) IN
                                  /\ values # <<>>
                                  /\ FracGeq(Frac(SumSeq(values), Len(values)),
                                             average_rating))))

\* GET /recipes/author/{author_id}: RecipeRepository.get_by_user
get_by_user(user_id) ==
    Answer("get_by_user", <<user_id>>,
           fetch_recipes_with_related(
               SelectSeq(RowsById(recipe_table), LAMBDA rec : rec.author = user_id)))

\* the normalized names of a stored recipe's ingredients, empty ones dropped
RecipeIngredients(rec) ==
    SelectSeq([i \in 1..Len(rec.ingredients) |->
                 normalize_string(lower(strip(IngredientName(rec.ingredients[i]))))],
              LAMBDA normalized_ing : normalized_ing # <<>>)

NormalizedSearch(ingredients) ==
    [i \in 1..Len(ingredients) |->
       normalize_string(lower(strip(ingredients[i])))]

\* containment taken in either direction: the caller's ingredient in the
\* recipe's, or the recipe's in the caller's
MatchingIngredientsEitherWay(rec, ingredients) ==
    LET normalized_search_ingredients == NormalizedSearch(ingredients) IN
    Len(SelectSeq(RecipeIngredients(rec),
                  LAMBDA ing :
                      \E i \in 1..Len(ingredients) :
                          \/ StrIn(normalized_search_ingredients[i], ing)
                          \/ StrIn(ing, normalized_search_ingredients[i])))

\* how many of the recipe's ingredients contain one of the search ingredients
MatchingIngredients(rec, ingredients) ==
    LET normalized_search_ingredients == NormalizedSearch(ingredients) IN
    Len(SelectSeq(RecipeIngredients(rec),
                  LAMBDA ing :
                      \E i \in 1..Len(ingredients) :
                          StrIn(normalized_search_ingredients[i], ing)))

\* match_percentage of a recipe with at least one normalized ingredient
MatchPercentage(rec, ingredients) ==
    Frac(MatchingIngredients(rec, ingredients), Len(RecipeIngredients(rec)))

\* an insertion that puts x in front of the entries with an equal match
RECURSIVE InsertByMatchBeforeEqual(_, _, _)
InsertByMatchBeforeEqual(x, sorted, ingredients) ==
    IF sorted = <<>> THEN <<x>>
    ELSE IF /\ FracGeq(MatchPercentage(Head(sorted), ingredients),
                       MatchPercentage(x, ingredients))
            /\ ~FracEq(MatchPercentage(Head(sorted), ingredients),
                       MatchPercentage(x, ingredients))
         THEN <<Head(sorted)>> \o
              InsertByMatchBeforeEqual(x, Tail(sorted), ingredients)
         ELSE <<x>> \o sorted

\* list.sort(key = match_percentage, reverse = True): stable insertion of x
RECURSIVE InsertByMatch(_, _, _)
InsertByMatch(x, sorted, ingredients) ==
    IF sorted = <<>> THEN <<x>>
    ELSE IF FracGeq(MatchPercentage(Head(sorted), ingredients),
                    MatchPercentage(x, ingredients))
         THEN <<Head(sorted)>> \o InsertByMatch(x, Tail(sorted), ingredients)
         ELSE <<x>> \o sorted

RECURSIVE SortByMatch(_, _)
SortByMatch(recs, ingredients) ==
    IF recs = <<>> THEN <<>>
    ELSE InsertByMatch(recs[Len(recs)],
                       SortByMatch(SubSeq(recs, 1, Len(recs) - 1), ingredients),
                       ingredients)

\* a threshold check that lets every number through
ThresholdUnchecked(min_match_percentage) == TRUE

\* 0 <= min_match_percentage <= 1
ThresholdInRange(min_match_percentage) ==
    /\ FracGeq(min_match_percentage, Frac(0, 1))
    /\ FracGeq(Frac(1, 1), min_match_percentage)

\* get_by_ingredients taking a recipe without a normalized ingredient as a
\* recipe whose match is 0
get_by_ingredients_counting_empty(ingredients, min_match_percentage) ==
    IF ingredients = <<>>
    THEN \* the router refuses an empty 'ingredients' parameter
         /\ response' = Resp("get_by_ingredients", NULL, NULL, <<ingredients, min_match_percentage>>, 400, <<>>)
         /\ UNCHANGED <<user_table, recipe_table, rating_table, comment_table,
                        report_table, seq, in_flight>>
    ELSE IF ~ThresholdInRange(min_match_percentage)
    THEN \* the repository raises, the service answers 500
         /\ response' = Resp("get_by_ingredients", NULL, NULL, <<ingredients, min_match_percentage>>, 500, <<>>)
         /\ UNCHANGED <<user_table, recipe_table, rating_table, comment_table,
                        report_table, seq, in_flight>>
    ELSE LET matching_recipes ==
                 SelectSeq(RowsById(recipe_table),
                           LAMBDA rec :
                               IF RecipeIngredients(rec) = <<>>
                               THEN FracGeq(Frac(0, 1), min_match_percentage)
                               ELSE FracGeq(MatchPercentage(rec, ingredients),
                                            min_match_percentage))
         IN  Answer("get_by_ingredients", <<ingredients, min_match_percentage>>,
                    [i \in 1..Len(matching_recipes) |->
                       RecipeDTO(matching_recipes[i], NullAvg)])

\* GET /recipes/by-ingredients: RecipeRepository.get_by_ingredients; the
\* record handed to the DTO has no average_rating entry
get_by_ingredients(ingredients, min_match_percentage) ==
    IF ingredients = <<>>
    THEN \* the router refuses an empty 'ingredients' parameter
         /\ response' = Resp("get_by_ingredients", NULL, NULL, <<ingredients, min_match_percentage>>, 400, <<>>)
         /\ UNCHANGED <<user_table, recipe_table, rating_table, comment_table,
                        report_table, seq, in_flight>>
    ELSE IF ~ThresholdInRange(min_match_percentage)
    THEN \* the repository raises, the service answers 500
         /\ response' = Resp("get_by_ingredients", NULL, NULL, <<ingredients, min_match_percentage>>, 500, <<>>)
         /\ UNCHANGED <<user_table, recipe_table, rating_table, comment_table,
                        report_table, seq, in_flight>>
    ELSE LET matching_recipes ==
                 SortByMatch(
                     SelectSeq(RowsById(recipe_table),
                               LAMBDA rec :
                                   /\ RecipeIngredients(rec) # <<>>
                                   /\ FracGeq(MatchPercentage(rec, ingredients),
                                              min_match_percentage)),
                     ingredients)
         IN  Answer("get_by_ingredients", <<ingredients, min_match_percentage>>,
                    [i \in 1..Len(matching_recipes) |->
                       RecipeDTO(matching_recipes[i], NullAvg)])

(***************************************************************************)
(* Comments and ratings.                                                   *)
(***************************************************************************)
Contents == {"tasty", "bland"}

\* the 'rating' member of a comment request: absent (None), a RatingIn whose
\* value is None, or a RatingIn with a value
NoRating == [given |-> FALSE, has |-> FALSE, value |-> 0]
EmptyRating == [given |-> TRUE, has |-> FALSE, value |-> 0]
RatingIn(v) == [given |-> TRUE, has |-> TRUE, value |-> v]
RatingInputs == {NoRating, EmptyRating, RatingIn(4), RatingIn(5)}

MinRating == 1
MaxRating == 5

\* a rating check that lets every value through
RatingUnchecked(rating) == TRUE

\* RatingIn.validate_rating, and the same test in CommentService.add_comment
\* and update_comment
RatingInRange(rating) ==
    rating.has => (MinRating <= rating.value /\ rating.value <= MaxRating)

GetComment(comment_id) ==
    IF \E c \in comment_table : c.id = comment_id
    THEN CHOOSE c \in comment_table : c.id = comment_id
    ELSE [id |-> NULL]

\* DELETE FROM ratings WHERE id = rating_id, with comments.rating_id
\* ON DELETE SET NULL
CommentsAfterRatingDelete(comments, rating_id) ==
    { IF c.rating_id = rating_id THEN [c EXCEPT !.rating_id = NULL] ELSE c
      : c \in comments }

\* DELETE FROM comments WHERE id = comment_id, with reports.comment_id
\* ON DELETE CASCADE
ReportsAfterCommentDelete(comment_id) ==
    { r \in report_table : r.comment_id # comment_id }

\* CommentRepository.add_comment, inside one transaction
repo_add_comment(author, recipe_id, content, rating) ==
    IF ~RecipeExists(recipe_id)
    THEN \* foreign key violation: the transaction is rolled back
         /\ response' = Resp("add_comment", author, recipe_id, <<rating>>, 500, <<>>)
         /\ UNCHANGED <<rating_table, comment_table, seq>>
    ELSE LET existing == { r \in rating_table :
                             r.author = author /\ r.recipe_id = recipe_id }
             new_comment(rating_id) ==
                 [id |-> seq.comment + 1, author |-> author,
                  recipe_id |-> recipe_id, content |-> content,
                  rating_id |-> rating_id, created_at |-> Now]
         IN  IF rating.given /\ rating.has
             THEN IF existing # {}
                  THEN \* fetch_one: one of the matching rows
                       \E existing_rating \in existing :
                         /\ rating_table' =
                              (rating_table \ {existing_rating}) \cup
                              {[existing_rating EXCEPT !.value = rating.value]}
                         /\ comment_table' = comment_table \cup
                              {new_comment(existing_rating.id)}
                         /\ seq' = [seq EXCEPT !.comment = @ + 1]
                         /\ response' = Resp("add_comment", author, recipe_id, <<rating>>, 200, <<>>)
                  ELSE /\ seq.rating < MaxRatings
                       /\ rating_table' = rating_table \cup
                            {[id |-> seq.rating + 1, author |-> author,
                              recipe_id |-> recipe_id, value |-> rating.value,
                              created_at |-> Now]}
                       /\ comment_table' = comment_table \cup
                            {new_comment(seq.rating + 1)}
                       /\ seq' = [seq EXCEPT !.comment = @ + 1, !.rating = @ + 1]
                       /\ response' = Resp("add_comment", author, recipe_id, <<rating>>, 200, <<>>)
             ELSE /\ comment_table' = comment_table \cup {new_comment(NULL)}
                  /\ seq' = [seq EXCEPT !.comment = @ + 1]
                  /\ response' = Resp("add_comment", author, recipe_id, <<rating>>, 200, <<>>)
                  /\ UNCHANGED rating_table

\* POST /create: router create_comment -> CommentService.add_comment
add_comment(user_uuid, recipe_id, content, rating) ==
    /\ UNCHANGED in_flight
    /\ seq.comment < MaxComments
    /\ user_uuid \in {u.id : u \in user_table}
    /\ IF ~RatingInRange(rating)
       THEN /\ response' = Resp("add_comment", user_uuid, recipe_id, <<rating>>, 422, <<>>)
            /\ UNCHANGED <<rating_table, comment_table, seq>>
       ELSE repo_add_comment(user_uuid, recipe_id, content, rating)
    /\ UNCHANGED <<user_table, recipe_table, report_table>>

AddingComment(c) == in_flight[c].op = "add_comment"

\* POST /create with a rating, up to the SELECT of CommentRepository.add_comment
\* for a rating of the author on the recipe (fetch_one: one matching row or
\* None)
add_comment_fetch_rating(c, user_uuid, recipe_id, content, rating) ==
    /\ in_flight[c] = Idle
    /\ seq.comment + Cardinality({d \in Calls : AddingComment(d)}) < MaxComments
    /\ seq.rating + Cardinality({d \in Calls : AddingComment(d)}) < MaxRatings
    /\ user_uuid \in {u.id : u \in user_table}
    /\ rating.given /\ rating.has /\ RatingInRange(rating)
    /\ LET existing == { r.id : r \in { x \in rating_table :
                             x.author = user_uuid /\ x.recipe_id = recipe_id } }
       IN  \E existing_rating \in (IF existing = {} THEN {NULL} ELSE existing) :
             in_flight' = [in_flight EXCEPT ![c] =
                             [op |-> "add_comment", who |-> user_uuid,
                              recipe_id |-> recipe_id, content |-> content,
                              rating |-> rating, existing_rating |-> existing_rating]]
    /\ UNCHANGED <<user_table, recipe_table, rating_table, comment_table,
                   report_table, seq, response>>

\* POST /create with a rating, from the UPDATE or INSERT of the rating to the
\* end of the transaction.  A foreign key that no longer holds rolls the
\* transaction back.
add_comment_write(c) ==
    /\ AddingComment(c)
    /\ LET call == in_flight[c]
           rating_id == IF call.existing_rating = NULL THEN seq.rating + 1
                        ELSE call.existing_rating
       IN  IF \/ ~RecipeExists(call.recipe_id)
              \/ /\ call.existing_rating # NULL
                 /\ call.existing_rating \notin {r.id : r \in rating_table}
           THEN /\ response' = Resp("add_comment", call.who, call.recipe_id, <<call.rating>>, 500, <<>>)
                /\ UNCHANGED <<rating_table, comment_table, seq>>
           ELSE /\ rating_table' =
                     IF call.existing_rating = NULL
                     THEN rating_table \cup
                            {[id |-> rating_id, author |-> call.who,
                              recipe_id |-> call.recipe_id,
                              value |-> call.rating.value, created_at |-> Now]}
                     ELSE { IF r.id = rating_id
                            THEN [r EXCEPT !.value = call.rating.value] ELSE r
                            : r \in rating_table }
                /\ comment_table' = comment_table \cup
                     {[id |-> seq.comment + 1, author |-> call.who,
                       recipe_id |-> call.recipe_id, content |-> call.content,
                       rating_id |-> rating_id, created_at |-> Now]}
                /\ seq' = [seq EXCEPT
                             !.comment = @ + 1,
                             !.rating = IF call.existing_rating = NULL THEN @ + 1 ELSE @]
                /\ response' = Resp("add_comment", call.who, call.recipe_id, <<call.rating>>, 200, <<>>)
    /\ in_flight' = [in_flight EXCEPT ![c] = Idle]
    /\ UNCHANGED <<user_table, recipe_table, report_table>>

\* CommentRepository.update_comment
repo_update_comment(comment_id, content, rating) ==
    LET existing_comment == GetComment(comment_id) IN
    IF rating.given /\ rating.has
    THEN IF existing_comment.rating_id # NULL
         THEN /\ rating_table' =
                   { IF r.id = existing_comment.rating_id
                     THEN [r EXCEPT !.value = rating.value] ELSE r
                     : r \in rating_table }
              /\ comment_table' = (comment_table \ {existing_comment}) \cup
                   {[existing_comment EXCEPT !.content = content]}
              /\ UNCHANGED seq
         ELSE /\ seq.rating < MaxRatings
              /\ rating_table' = rating_table \cup
                   {[id |-> seq.rating + 1, author |-> existing_comment.author,
                     recipe_id |-> existing_comment.recipe_id,
                     value |-> rating.value, created_at |-> Now]}
              /\ comment_table' = (comment_table \ {existing_comment}) \cup
                   {[existing_comment EXCEPT !.content = content,
                                             !.rating_id = seq.rating + 1]}
              /\ seq' = [seq EXCEPT !.rating = @ + 1]
    ELSE IF ~rating.given /\ existing_comment.rating_id # NULL
         THEN /\ rating_table' =
                   { r \in rating_table : r.id # existing_comment.rating_id }
              /\ comment_table' =
                   CommentsAfterRatingDelete(
                       (comment_table \ {existing_comment}) \cup
                       {[existing_comment EXCEPT !.content = content,
                                                 !.rating_id = NULL]},
                       existing_comment.rating_id)
              /\ UNCHANGED seq
         ELSE /\ comment_table' = (comment_table \ {existing_comment}) \cup
                   {[existing_comment EXCEPT !.content = content]}
              /\ UNCHANGED <<rating_table, seq>>

\* PUT /comments/{comment_id}: router update_comment ->
\* CommentService.update_comment
update_comment(user_uuid, comment_id, content, rating) ==
    /\ UNCHANGED in_flight
    /\ user_uuid \in {u.id : u \in user_table}
    /\ LET existing == GetComment(comment_id) IN
       IF ~RatingInRange(rating)
       THEN \* the request body is refused when its RatingIn is built
            /\ response' = Resp("update_comment", user_uuid, comment_id, <<rating>>, 422, <<>>)
            /\ UNCHANGED <<rating_table, comment_table, seq>>
       ELSE IF existing.id = NULL
       THEN /\ response' = Resp("update_comment", user_uuid, comment_id, <<rating>>, 404, <<>>)
            /\ UNCHANGED <<rating_table, comment_table, seq>>
       ELSE IF existing.author # user_uuid /\ ~is_admin(user_uuid)
       THEN /\ response' = Resp("update_comment", user_uuid, comment_id, <<rating>>, 403, <<>>)
            /\ UNCHANGED <<rating_table, comment_table, seq>>
       ELSE IF ~RatingInRange(rating)
       THEN /\ response' = Resp("update_comment", user_uuid, comment_id, <<rating>>, 400, <<>>)
            /\ UNCHANGED <<rating_table, comment_table, seq>>
       ELSE /\ repo_update_comment(comment_id, content, rating)
            /\ response' = Resp("update_comment", user_uuid, comment_id, <<rating>>, 200, <<>>)
    /\ UNCHANGED <<user_table, recipe_table, report_table>>

\* CommentRepository.delete_comment
repo_delete_comment(comment_id) ==
    LET comment == GetComment(comment_id) IN
    /\ rating_table' = { r \in rating_table : r.id # comment.rating_id }
    /\ comment_table' =
         IF comment.rating_id # NULL
         THEN CommentsAfterRatingDelete(comment_table \ {comment},
                                        comment.rating_id)
         ELSE comment_table \ {comment}
    /\ report_table' = ReportsAfterCommentDelete(comment_id)

\* DELETE /comments/{comment_id}: router delete_comment ->
\* CommentService.delete_comment
delete_comment(user_uuid, comment_id) ==
    /\ UNCHANGED in_flight
    /\ user_uuid \in {u.id : u \in user_table}
    /\ LET existing == GetComment(comment_id) IN
       IF existing.id = NULL
       THEN /\ response' = Resp("delete_comment", user_uuid, comment_id, <<>>, 404, <<>>)
            /\ UNCHANGED <<rating_table, comment_table, report_table>>
       ELSE IF existing.author # user_uuid /\ ~is_admin(user_uuid)
       THEN /\ response' = Resp("delete_comment", user_uuid, comment_id, <<>>, 403, <<>>)
            /\ UNCHANGED <<rating_table, comment_table, report_table>>
       ELSE /\ repo_delete_comment(comment_id)
            /\ response' = Resp("delete_comment", user_uuid, comment_id, <<>>, 200, <<>>)
    /\ UNCHANGED <<user_table, recipe_table, seq>>

\* The second CommentService of the repository (themealapi): its
\* update_comment takes (comment_id, comment), so the router's call with the
\* requester as a third argument raises TypeError, which the router turns
\* into a server error before anything is read or written.
themealapi_update_comment(user_uuid, comment_id, content, rating) ==
    /\ UNCHANGED in_flight
    /\ user_uuid \in {u.id : u \in user_table}
    /\ response' = Resp("update_comment", user_uuid, comment_id, <<rating>>,
                        IF RatingInRange(rating) THEN 500 ELSE 422, <<>>)
    /\ UNCHANGED <<user_table, recipe_table, rating_table, comment_table,
                   report_table, seq>>

\* The second CommentService of the repository (themealapi): delete_comment
\* lets the author through and nobody else
themealapi_delete_comment(user_uuid, comment_id) ==
    /\ UNCHANGED in_flight
    /\ user_uuid \in {u.id : u \in user_table}
    /\ LET existing == GetComment(comment_id) IN
       IF existing.id = NULL
       THEN /\ response' = Resp("delete_comment", user_uuid, comment_id, <<>>, 404, <<>>)
            /\ UNCHANGED <<rating_table, comment_table, report_table>>
       ELSE IF existing.author # user_uuid
       THEN /\ response' = Resp("delete_comment", user_uuid, comment_id, <<>>, 403, <<>>)
            /\ UNCHANGED <<rating_table, comment_table, report_table>>
       ELSE /\ repo_delete_comment(comment_id)
            /\ response' = Resp("delete_comment", user_uuid, comment_id, <<>>, 200, <<>>)
    /\ UNCHANGED <<user_table, recipe_table, seq>>

(***************************************************************************)
(* Reports.                                                                *)
(***************************************************************************)
ReportStatus == {"pending", "resolved", "rejected"}
Notes == {NoText, "done"}

GetReport(report_id) ==
    IF \E r \in report_table : r.id = report_id
    THEN CHOOSE r \in report_table : r.id = report_id
    ELSE [id |-> NULL]

\* POST /create: router create_report -> ReportService.add_report ->
\* ReportRepository.add_report; recipe_id and comment_id are foreign keys
create_report(user_uuid, recipe_id, comment_id) ==
    /\ UNCHANGED in_flight
    /\ seq.report < MaxReports
    /\ user_uuid \in {u.id : u \in user_table}
    /\ IF recipe_id = NULL /\ comment_id = NULL
       THEN /\ response' = Resp("create_report", user_uuid, NULL, <<recipe_id, comment_id>>, 400, <<>>)
            /\ UNCHANGED <<report_table, seq>>
       ELSE IF \/ (recipe_id # NULL /\ ~RecipeExists(recipe_id))
               \/ (comment_id # NULL /\ GetComment(comment_id).id = NULL)
       THEN /\ response' = Resp("create_report", user_uuid, NULL, <<recipe_id, comment_id>>, 500, <<>>)
            /\ UNCHANGED <<report_table, seq>>
       ELSE /\ report_table' = report_table \cup
                 {[id |-> seq.report + 1, reporter_id |-> user_uuid,
                   recipe_id |-> recipe_id, comment_id |-> comment_id,
                   status |-> "pending", resolved_by |-> NULL,
                   resolution_note |-> NoText, resolved_at |-> NoTime]}
            /\ seq' = [seq EXCEPT !.report = @ + 1]
            /\ response' = Resp("create_report", user_uuid, NULL, <<recipe_id, comment_id>>, 200, <<>>)
    /\ UNCHANGED <<user_table, recipe_table, rating_table, comment_table>>

\* ReportIn of the themealapi tree declares recipe_id: int and
\* comment_id: int, so it is built only when both are given
themealapi_ReportInAccepts(recipe_id, comment_id) ==
    recipe_id # NULL /\ comment_id # NULL

\* POST /create with the ReportIn of the themealapi tree: after the router's
\* own check, ReportIn(recipe_id=..., comment_id=...) raises a
\* ValidationError, a ValueError, which the router answers with 400
themealapi_create_report(user_uuid, recipe_id, comment_id) ==
    IF (recipe_id = NULL /\ comment_id = NULL)
         \/ themealapi_ReportInAccepts(recipe_id, comment_id)
    THEN create_report(user_uuid, recipe_id, comment_id)
    ELSE /\ seq.report < MaxReports
         /\ user_uuid \in {u.id : u \in user_table}
         /\ response' = [Resp("create_report", user_uuid, NULL, <<recipe_id, comment_id>>, 400, <<>>)
                           EXCEPT !.status = 400]
         /\ UNCHANGED <<user_table, recipe_table, rating_table, comment_table,
                        report_table, seq, in_flight>>

\* ReportRepository.update_status
repo_update_status(report_id, status, resolved_by, resolution_note) ==
    LET existing == GetReport(report_id)
        closing == status \in {"resolved", "rejected"}
    IN  report_table' = (report_table \ {existing}) \cup
            {[existing EXCEPT
                !.status = status,
                !.resolved_at = IF closing THEN Now ELSE NoTime,
                !.resolved_by = IF closing THEN resolved_by ELSE @,
                !.resolution_note = IF closing THEN resolution_note ELSE @]}

\* update_report_status without the check that a resolved report stays
\* resolved
service_update_report_status_reopening(report_id, status, resolved_by, resolution_note) ==
    LET existing == GetReport(report_id) IN
    IF existing.id = NULL
    THEN /\ response' = Resp("update_report_status", resolved_by, report_id, <<status>>, 404, <<>>)
         /\ UNCHANGED report_table
    ELSE IF status = "resolved" /\ resolved_by = NULL
    THEN /\ response' = Resp("update_report_status", resolved_by, report_id, <<status>>, 400, <<>>)
         /\ UNCHANGED report_table
    ELSE /\ repo_update_status(report_id, status, resolved_by, resolution_note)
         /\ response' = Resp("update_report_status", resolved_by, report_id, <<status>>, 200, <<>>)

\* update_report_status without the check that resolving names a resolver
service_update_report_status_anonymous(report_id, status, resolved_by, resolution_note) ==
    LET existing == GetReport(report_id) IN
    IF existing.id = NULL
    THEN /\ response' = Resp("update_report_status", resolved_by, report_id, <<status>>, 404, <<>>)
         /\ UNCHANGED report_table
    ELSE IF existing.status = "resolved" /\ status # "resolved"
    THEN /\ response' = Resp("update_report_status", resolved_by, report_id, <<status>>, 400, <<>>)
         /\ UNCHANGED report_table
    ELSE /\ repo_update_status(report_id, status, resolved_by, resolution_note)
         /\ response' = Resp("update_report_status", resolved_by, report_id, <<status>>, 200, <<>>)

\* ReportService.update_report_status
service_update_report_status(report_id, status, resolved_by, resolution_note) ==
    LET existing == GetReport(report_id) IN
    IF existing.id = NULL
    THEN /\ response' = Resp("update_report_status", resolved_by, report_id, <<status>>, 404, <<>>)
         /\ UNCHANGED report_table
    ELSE IF existing.status = "resolved" /\ status # "resolved"
    THEN /\ response' = Resp("update_report_status", resolved_by, report_id, <<status>>, 400, <<>>)
         /\ UNCHANGED report_table
    ELSE IF status = "resolved" /\ resolved_by = NULL
    THEN /\ response' = Resp("update_report_status", resolved_by, report_id, <<status>>, 400, <<>>)
         /\ UNCHANGED report_table
    ELSE /\ repo_update_status(report_id, status, resolved_by, resolution_note)
         /\ response' = Resp("update_report_status", resolved_by, report_id, <<status>>, 200, <<>>)

\* update_report_status without the check that the requester is an
\* administrator
update_report_status_unguarded(user_uuid, report_id, status, resolution_note) ==
    /\ UNCHANGED in_flight
    /\ user_uuid \in {u.id : u \in user_table}
    /\ service_update_report_status(report_id, status, user_uuid,
                                    resolution_note)
    /\ UNCHANGED <<user_table, recipe_table, rating_table, comment_table, seq>>

\* PUT /{report_id}/status: router update_report_status; the resolver handed
\* to the service is the requester
update_report_status(user_uuid, report_id, status, resolution_note) ==
    /\ UNCHANGED in_flight
    /\ user_uuid \in {u.id : u \in user_table}
    /\ IF ~is_admin(user_uuid)
       THEN /\ response' = Resp("update_report_status", user_uuid, report_id, <<status>>, 403, <<>>)
            /\ UNCHANGED report_table
       ELSE service_update_report_status(report_id, status, user_uuid,
                                         resolution_note)
    /\ UNCHANGED <<user_table, recipe_table, rating_table, comment_table, seq>>

\* ReportService.update_report_status called with any resolver, None included
call_update_report_status(report_id, status, resolved_by, resolution_note) ==
    /\ UNCHANGED in_flight
    /\ resolved_by \in {NULL} \cup {u.id : u \in user_table}
    /\ service_update_report_status(report_id, status, resolved_by,
                                    resolution_note)
    /\ UNCHANGED <<user_table, recipe_table, rating_table, comment_table, seq>>

\* PUT /{report_id}/status, up to the call of ReportRepository.update_status:
\* the administrator check, ReportService's get_by_id and the checks it
\* makes on the row it read
update_report_status_get_by_id(c, user_uuid, report_id, status, resolution_note) ==
    /\ in_flight[c] = Idle
    /\ user_uuid \in {u.id : u \in user_table}
    /\ LET existing == GetReport(report_id)
           refused == IF ~is_admin(user_uuid) THEN 403
                      ELSE IF existing.id = NULL THEN 404
                      ELSE IF existing.status = "resolved" /\ status # "resolved" THEN 400
                      ELSE 200
       IN  IF refused # 200
           THEN /\ response' = Resp("update_report_status", user_uuid, report_id, <<status>>, refused, <<>>)
                /\ UNCHANGED in_flight
           ELSE /\ in_flight' = [in_flight EXCEPT ![c] =
                                    [op |-> "update_report_status", who |-> user_uuid,
                                     report_id |-> report_id, status |-> status,
                                     resolution_note |-> resolution_note]]
                /\ UNCHANGED response
    /\ UNCHANGED <<user_table, recipe_table, rating_table, comment_table,
                   report_table, seq>>

\* PUT /{report_id}/status, from ReportRepository.update_status on: the row
\* is written if it still exists, whatever its status is by now
update_report_status_update_status(c) ==
    /\ in_flight[c].op = "update_report_status"
    /\ LET call == in_flight[c] IN
       IF GetReport(call.report_id).id = NULL
       THEN /\ response' = Resp("update_report_status", call.who, call.report_id, <<call.status>>, 500, <<>>)
            /\ UNCHANGED report_table
       ELSE /\ repo_update_status(call.report_id, call.status, call.who, call.resolution_note)
            /\ response' = Resp("update_report_status", call.who, call.report_id, <<call.status>>, 200, <<>>)
    /\ in_flight' = [in_flight EXCEPT ![c] = Idle]
    /\ UNCHANGED <<user_table, recipe_table, rating_table, comment_table, seq>>

\* DELETE /{report_id}: router delete_report -> ReportService.delete_report
\* -> ReportRepository.delete_report
delete_report(user_uuid, report_id) ==
    /\ UNCHANGED in_flight
    /\ user_uuid \in {u.id : u \in user_table}
    /\ IF ~is_admin(user_uuid)
       THEN /\ response' = Resp("delete_report", user_uuid, report_id, <<>>, 403, <<>>)
            /\ UNCHANGED report_table
       ELSE IF GetReport(report_id).id = NULL
       THEN /\ response' = Resp("delete_report", user_uuid, report_id, <<>>, 404, <<>>)
            /\ UNCHANGED report_table
       ELSE /\ report_table' = { r \in report_table : r.id # report_id }
            /\ response' = Resp("delete_report", user_uuid, report_id, <<>>, 200, <<>>)
    /\ UNCHANGED <<user_table, recipe_table, rating_table, comment_table, seq>>

(***************************************************************************)
(* The system: the tables start empty, every step is one request.          *)
(***************************************************************************)
Init ==
    /\ user_table = {}
    /\ recipe_table = {}
    /\ rating_table = {}
    /\ comment_table = {}
    /\ report_table = {}
    /\ seq = [user |-> 0, recipe |-> 0, rating |-> 0, comment |-> 0, report |-> 0]
    /\ response = Resp("none", NULL, NULL, <<>>, 0, <<>>)
    /\ in_flight = [c \in Calls |-> Idle]

UserIds == 1..MaxUsers
RecipeIds == 1..MaxRecipes
CommentIds == 1..MaxComments
ReportIds == 1..MaxReports

\* the thresholds and minimum ratings the model asks with
Thresholds == {Frac(0, 1), Frac(1, 2), Frac(3, 5), Frac(1, 1)}
MinimumRatings == {Frac(4, 1), Frac(9, 2)}

RegisterUser ==
    \E email \in Emails, role \in UserRole : register_user(email, role)
\* a registration with an address nobody registered yet
RegisterFresh ==
    \E role \in UserRole : register_user(<<"user", seq.user + 1, "@x">>, role)
AddRecipe ==
    \E u \in UserIds, body \in RecipeInputs : add_recipe(u, body)
AddEggSoup ==
    \E u \in UserIds : add_recipe(u, EggSoup)
UpdateRecipe ==
    \E u \in UserIds, r \in RecipeIds, body \in RecipeInputs :
        update_recipe(u, r, body)
DeleteRecipe ==
    \E u \in UserIds, r \in RecipeIds : delete_recipe(u, r)
AddComment ==
    \E u \in UserIds, r \in RecipeIds, c \in Contents, rating \in RatingInputs :
        add_comment(u, r, c, rating)
UpdateComment ==
    \E u \in UserIds, id \in CommentIds, c \in Contents, rating \in RatingInputs :
        update_comment(u, id, c, rating)
DeleteComment ==
    \E u \in UserIds, id \in CommentIds : delete_comment(u, id)
UpdateCommentThemealapi ==
    \E u \in UserIds, id \in CommentIds, c \in Contents, rating \in RatingInputs :
        themealapi_update_comment(u, id, c, rating)
DeleteCommentThemealapi ==
    \E u \in UserIds, id \in CommentIds : themealapi_delete_comment(u, id)
CreateReport ==
    \E u \in UserIds, r \in {NULL} \cup RecipeIds, c \in {NULL} \cup CommentIds :
        create_report(u, r, c)
CreateRecipeReport ==
    \E u \in UserIds, r \in {NULL} \cup RecipeIds : create_report(u, r, NULL)
CreateReportThemealapi ==
    \E u \in UserIds, r \in {NULL} \cup RecipeIds, c \in {NULL} \cup CommentIds :
        themealapi_create_report(u, r, c)
UpdateReportStatus ==
    \E u \in UserIds, id \in ReportIds, status \in ReportStatus, note \in Notes :
        update_report_status(u, id, status, note)
CallUpdateReportStatus ==
    \E id \in ReportIds, status \in ReportStatus, by \in {NULL} \cup UserIds,
       note \in Notes :
        call_update_report_status(id, status, by, note)
DeleteReport ==
    \E u \in UserIds, id \in ReportIds : delete_report(u, id)
UpdateUserRole ==
    \E u \in UserIds, id \in UserIds, role \in UserRole :
        update_user_role(u, id, role)

\* the recipe queries, asked with parameters from the given sets
QueriesWith(Ids, Tags, Times, Minimums, Authors, Fractions) ==
    \/ get_all_recipes
    \/ \E r \in Ids : get_by_id(r)
    \/ get_by_name(T_egg)
    \/ get_by_category(T_Soup)
    \/ \E tag \in Tags : get_by_tag(tag)
    \/ \E t \in Times : get_by_preparation_time(t)
    \/ \E m \in Minimums : get_by_average_rating(m)
    \/ \E u \in Authors : get_by_user(u)
    \/ \E t \in Fractions : get_by_ingredients(<<T_Egg>>, t)

Queries ==
    QueriesWith(RecipeIds, {T_cafe, T_cafe_plain}, {0, 30}, MinimumRatings,
                UserIds, Thresholds)

Next ==
    \/ RegisterUser
    \/ AddRecipe
    \/ UpdateRecipe
    \/ DeleteRecipe
    \/ AddComment
    \/ UpdateComment
    \/ DeleteComment
    \/ UpdateCommentThemealapi
    \/ DeleteCommentThemealapi
    \/ CreateReport
    \/ UpdateReportStatus
    \/ CallUpdateReportStatus
    \/ DeleteReport
    \/ UpdateUserRole
    \/ Queries

Spec == Init /\ [][Next]_vars

(***************************************************************************)
(* Recipes and who may change them.                                        *)
(***************************************************************************)
NextRecipe ==
    \/ RegisterFresh
    \/ AddRecipe
    \/ UpdateRecipe
    \/ DeleteRecipe

SpecRecipe == Init /\ [][NextRecipe]_vars

(***************************************************************************)
(* Comments and the ratings they carry, on one recipe.                     *)
(***************************************************************************)
NextComment ==
    \/ RegisterFresh
    \/ AddEggSoup
    \/ AddComment
    \/ UpdateComment
    \/ DeleteComment
    \/ UpdateCommentThemealapi
    \/ DeleteCommentThemealapi

SpecComment == Init /\ [][NextComment]_vars

(***************************************************************************)
(* The average rating every response reports.                              *)
(***************************************************************************)
NextRating ==
    \/ RegisterFresh
    \/ add_recipe(1, EggSoup)
    \/ \E u \in UserIds, r \in RecipeIds, rating \in RatingInputs :
          add_comment(u, r, "tasty", rating)
    \/ \E u \in UserIds, id \in CommentIds, rating \in RatingInputs :
          update_comment(u, id, "tasty", rating)
    \/ DeleteComment
    \/ update_recipe(1, 1, EggSoup)
    \/ QueriesWith(RecipeIds, {T_cafe_plain}, {30}, {Frac(4, 1)}, {1},
                   {Frac(1, 2)})

SpecRating == Init /\ [][NextRating]_vars

(***************************************************************************)
(* Reports and their status.                                               *)
(***************************************************************************)
NextReport ==
    \/ RegisterFresh
    \/ AddEggSoup
    \/ CreateRecipeReport
    \/ UpdateReportStatus
    \/ CallUpdateReportStatus
    \/ DeleteReport

SpecReport == Init /\ [][NextReport]_vars

(***************************************************************************)
(* Moderation as clients reach it: every step is a request to a router.    *)
(***************************************************************************)
NextAdmin ==
    \/ RegisterFresh
    \/ AddEggSoup
    \/ CreateRecipeReport
    \/ UpdateReportStatus
    \/ DeleteReport
    \/ UpdateUserRole

SpecAdmin == Init /\ [][NextAdmin]_vars

(***************************************************************************)
(* Comments whose rating may be out of range: user 1 owns the recipe and   *)
(* every user comments on it.                                              *)
(***************************************************************************)
RatingValueInputs == {NoRating, RatingIn(0), RatingIn(3), RatingIn(6)}

NextValidation ==
    \/ RegisterFresh
    \/ add_recipe(1, EggSoup)
    \/ \E u \in UserIds, r \in RecipeIds, rating \in RatingValueInputs :
           add_comment(u, r, "tasty", rating)
    \/ \E u \in UserIds, id \in CommentIds, rating \in RatingValueInputs :
           update_comment(u, id, "tasty", rating)
    \/ DeleteComment

SpecValidation == Init /\ [][NextValidation]_vars

(***************************************************************************)
(* Requests that fail: recipe bodies that request validation or            *)
(* RecipeMapper.validate refuses, comments on a recipe that is not stored, *)
(* ratings out of range, requesters who may not update.                    *)
(***************************************************************************)
FailingRecipeInputs == {EggSoup, BlankSoup, InstantSoup}

NextFailing ==
    \/ RegisterFresh
    \/ \E u \in UserIds, body \in FailingRecipeInputs : add_recipe(u, body)
    \/ \E u \in UserIds, r \in RecipeIds, body \in FailingRecipeInputs :
           update_recipe(u, r, body)
    \/ \E u \in UserIds, r \in RecipeIds, rating \in RatingValueInputs :
           add_comment(u, r, "tasty", rating)
    \/ \E u \in UserIds, id \in CommentIds, rating \in RatingValueInputs :
           update_comment(u, id, "bland", rating)
    \/ \E u \in UserIds, id \in CommentIds, rating \in RatingValueInputs :
           themealapi_update_comment(u, id, "bland", rating)

SpecFailing == Init /\ [][NextFailing]_vars

(***************************************************************************)
(* get_by_ingredients as a function of the stored recipe and the request:  *)
(* one user has stored one recipe, whose ingredient list is any list the   *)
(* model can build, and every step asks the query.                         *)
(***************************************************************************)
MaxIngredients == 2

SeqsUpTo(S, n) == UNION { [1..k -> S] : k \in 1..n }

\* ingredients as the client sends them with a recipe
IngredientPool == {Amount("2", T_Egg), Amount("1", T_yolk), <<"1", ":", " ">>}
\* ingredients as the client sends them with the query
SearchPool == {T_Egg, T_yolk}
MatchThresholds == {Frac(0, 1), Frac(1, 2), Frac(1, 1)}

InitMatch ==
    /\ user_table = {[id |-> 1, email |-> <<"user", 1, "@x">>, role |-> "USER"]}
    /\ \E ingredients \in SeqsUpTo(IngredientPool, MaxIngredients) :
          recipe_table =
            {NewRecipeRow(1, 1, RecipeIn([EggSoup EXCEPT !.ingredients = ingredients]))}
    /\ rating_table = {}
    /\ comment_table = {}
    /\ report_table = {}
    /\ seq = [user |-> 1, recipe |-> 1, rating |-> 0, comment |-> 0, report |-> 0]
    /\ response = Resp("none", NULL, NULL, <<>>, 0, <<>>)
    /\ in_flight = [c \in Calls |-> Idle]

NextMatch ==
    \E ingredients \in SeqsUpTo(SearchPool, MaxIngredients),
       min_match_percentage \in MatchThresholds :
        get_by_ingredients(ingredients, min_match_percentage)

SpecMatch == InitMatch /\ [][NextMatch]_vars

(***************************************************************************)
(* get_by_ingredients over several stored recipes: user 1 has stored up to *)
(* MaxStoredRecipes recipes, each with one of three ingredient lists, and  *)
(* every step asks the query.                                              *)
(***************************************************************************)
MaxStoredRecipes == 3

StoredIngredientLists ==
    {<<Amount("2", T_Egg)>>,
     <<Amount("2", T_Egg), Amount("1", T_mix)>>,
     <<Amount("1", T_mix)>>}
OrderSearchLists == {<<T_Egg>>, <<T_mix>>, <<T_Egg, T_mix>>}

InitOrder ==
    /\ user_table = {[id |-> 1, email |-> <<"user", 1, "@x">>, role |-> "USER"]}
    /\ \E n \in 1..MaxStoredRecipes :
       \E lists \in [1..n -> StoredIngredientLists] :
          /\ recipe_table =
               { NewRecipeRow(i, 1,
                     RecipeIn([EggSoup EXCEPT !.ingredients = lists[i]]))
                 : i \in 1..n }
          /\ seq = [user |-> 1, recipe |-> n, rating |-> 0, comment |-> 0,
                    report |-> 0]
    /\ rating_table = {}
    /\ comment_table = {}
    /\ report_table = {}
    /\ response = Resp("none", NULL, NULL, <<>>, 0, <<>>)
    /\ in_flight = [c \in Calls |-> Idle]

NextOrder ==
    \E ingredients \in OrderSearchLists,
       min_match_percentage \in MatchThresholds :
        get_by_ingredients(ingredients, min_match_percentage)

SpecOrder == InitOrder /\ [][NextOrder]_vars

(***************************************************************************)
(* The same store, asked with arguments the query must refuse as well: no  *)
(* ingredient at all, a threshold below 0 or above 1.                      *)
(***************************************************************************)
AnySearchLists == OrderSearchLists \cup {<<>>}
AnyThresholds == MatchThresholds \cup {Frac(-1, 2), Frac(3, 2)}

NextArguments ==
    \E ingredients \in AnySearchLists, min_match_percentage \in AnyThresholds :
        get_by_ingredients(ingredients, min_match_percentage)

SpecArguments == InitOrder /\ [][NextArguments]_vars

(***************************************************************************)
(* Tags written and tags asked for: every recipe is created with one tag   *)
(* of TagPool, and the by-tag query is asked with the tags of TagPool.  No *)
(* two tags of the pool are stored alike, so a stored tag tells which tag  *)
(* the recipe was created with.                                            *)
(***************************************************************************)
TagPool == {T_cafe, T_Soup}

NextTag ==
    \/ RegisterFresh
    \/ \E u \in UserIds, tag \in TagPool :
           add_recipe(u, [EggSoup EXCEPT !.tags = <<tag>>])
    \/ DeleteRecipe
    \/ \E tag \in TagPool : get_by_tag(tag)

SpecTag == Init /\ [][NextTag]_vars

(***************************************************************************)
(* Reports of recipes and of comments, filed through either ReportIn.      *)
(***************************************************************************)
NextTarget ==
    \/ RegisterFresh
    \/ AddEggSoup
    \/ \E u \in UserIds, r \in RecipeIds : add_comment(u, r, "tasty", NoRating)
    \/ CreateReport
    \/ CreateReportThemealapi
    \/ DeleteReport

SpecTarget == Init /\ [][NextTarget]_vars

(***************************************************************************)
(* Recipe creation with every outcome of the detection call.               *)
(***************************************************************************)
NextDetection ==
    \/ RegisterFresh
    \/ \E u \in UserIds, body \in FailingRecipeInputs, sapling \in SaplingAnswers :
           create_recipe(u, body, sapling)
    \/ DeleteRecipe

SpecDetection == Init /\ [][NextDetection]_vars

(***************************************************************************)
(* Properties.                                                             *)
(***************************************************************************)
\* the ids of the recipes a response returned
Returned == { response.body[i].id : i \in DOMAIN response.body }

\* C1: get_by_ingredients returns a stored recipe with at least one
\* normalizable ingredient if and only if the number of its normalized
\* ingredient names that contain a normalized query ingredient, divided by the
\* number of its normalized ingredient names, is at least the threshold; the
\* query ingredient must lie in the recipe's ingredient, not the other way
\* round.
C1_MatchFractionDecides ==
    (response.op = "get_by_ingredients" /\ response.code \in {200, 404}) =>
        LET query == NormalizedSearch(response.input[1])
            threshold == response.input[2]
        IN  \A rec \in recipe_table :
              LET names == RecipeIngredients(rec)
                  matched == Cardinality(
                      { i \in DOMAIN names :
                          \E j \in DOMAIN query : StrIn(query[j], names[i]) })
              IN  names # <<>> =>
                    (rec.id \in Returned
                       <=> matched * threshold[2] >= threshold[1] * Len(names))

\* the query "egg yolk" against the recipe with "egg" and "egg yolk": one of
\* two ingredients matches ("egg" does not contain "egg yolk"), and at the
\* threshold 1/2 the recipe is returned
C1_Witness ==
    /\ response.op = "get_by_ingredients"
    /\ response.code = 200
    /\ response.input = <<(<<T_yolk>>), Frac(1, 2)>>
    /\ \E rec \in recipe_table :
          /\ RecipeIngredients(rec) = <<T_egg, T_yolk>>
          /\ rec.id \in Returned

\* C2: the rating store holds at most one rating for each (author, recipe)
\* pair.
C2_OneRatingPerAuthorRecipe ==
    \A r1, r2 \in rating_table :
        (r1.author = r2.author /\ r1.recipe_id = r2.recipe_id) => r1.id = r2.id

\* C3: the average_rating that get_by_id answers with is the one computed from
\* the ratings stored for the recipe at that moment (their mean to two
\* decimals, null when there are none), never a stored value.
C3_GetByIdRecomputes ==
    (response.op = "get_by_id" /\ response.code = 200) =>
        \A i \in DOMAIN response.body :
            FracEq(response.body[i].average_rating,
                   AverageRounded(RatingValues(RatingsOf(response.body[i].id))))

\* C4: a recipe without ratings is reported with a null average_rating by
\* every query path that returns it and by the response of update_recipe.
C4_NullWithoutRatings ==
    (/\ response.op \in {"get_all_recipes", "get_by_id", "get_by_name",
                         "get_by_category", "get_by_tag",
                         "get_by_preparation_time", "get_by_user",
                         "get_by_ingredients", "update_recipe"}
     /\ response.code = 200) =>
        \A i \in DOMAIN response.body :
            RatingsOf(response.body[i].id) = <<>> =>
                IsNullAvg(response.body[i].average_rating)

\* C5: a recipe with at least one rating is reported by every query path that
\* returns it with the mean of its rating values rounded to two decimals.
C5_RoundedMeanWithRatings ==
    (/\ response.op \in {"get_all_recipes", "get_by_id", "get_by_name",
                         "get_by_category", "get_by_tag",
                         "get_by_preparation_time", "get_by_average_rating",
                         "get_by_user", "get_by_ingredients"}
     /\ response.code = 200) =>
        \A i \in DOMAIN response.body :
            LET values == RatingValues(RatingsOf(response.body[i].id)) IN
            values # <<>> =>
                /\ ~IsNullAvg(response.body[i].average_rating)
                /\ FracEq(response.body[i].average_rating,
                          Round2(SumSeq(values), Len(values)))

\* C6: an update_report_status request that asks a RESOLVED report for
\* another status is answered with an error and leaves the report's row
\* (status, resolved_by, resolution_note, resolved_at) as it was.
C6_ResolvedRefusesOtherStatus ==
    [][\A r \in report_table :
         (/\ r.status = "resolved"
          /\ response'.op = "update_report_status"
          /\ response'.target = r.id
          /\ response'.input[1] # "resolved")
           => (response'.code # 200 /\ r \in report_table')]_vars

\* a request for PENDING or REJECTED on a resolved report was refused, and the
\* report still carries its resolver and note
C6_Witness ==
    /\ response.op = "update_report_status"
    /\ response.code = 400
    /\ response.input[1] \in {"pending", "rejected"}
    /\ \E r \in report_table :
          /\ r.id = response.target
          /\ r.status = "resolved"
          /\ r.resolved_by # NULL
          /\ r.resolution_note = "done"

\* C7: a report that has reached REJECTED never afterwards has the status
\* PENDING or RESOLVED.
C7_RejectedIsTerminal ==
    [][\A r \in report_table : \A q \in report_table' :
         (r.status = "rejected" /\ q.id = r.id) => q.status = "rejected"]_vars

\* C8: every RESOLVED report has a resolver, and an update_report_status
\* request for RESOLVED that names no resolver is answered with an error and
\* changes no report.
C8_ResolvedHasResolver ==
    [][/\ \A r \in report_table' :
            r.status = "resolved" => r.resolved_by # NULL
       /\ (/\ response'.op = "update_report_status"
           /\ response'.input[1] = "resolved"
           /\ response'.who = NULL)
            => (response'.code # 200 /\ report_table' = report_table)]_vars

\* a request to resolve an existing report without a resolver was refused
C8_Witness ==
    /\ response.op = "update_report_status"
    /\ response.input[1] = "resolved"
    /\ response.who = NULL
    /\ response.code = 400
    /\ \E r \in report_table : r.id = response.target /\ r.status # "resolved"

\* C9: update_recipe and delete_recipe asked for by a user who is neither the
\* recipe's author nor an ADMIN answer Forbidden and leave the recipe's row in
\* place, every field as it was.  (A body that is no RecipeIn is turned away
\* with 422 before update_recipe runs.)
C9_ForbiddenLeavesRecipe ==
    [][\A rec \in recipe_table :
         (/\ response'.op \in {"update_recipe", "delete_recipe"}
          /\ response'.target = rec.id
          /\ response'.code # 422
          /\ rec.author # response'.who
          /\ ~is_admin(response'.who))
           => (response'.code = 403 /\ rec \in recipe_table')]_vars

\* a user who is neither author nor ADMIN asked to update a recipe and was
\* answered Forbidden
C9_Witness ==
    /\ response.op = "update_recipe"
    /\ response.code = 403
    /\ ~is_admin(response.who)
    /\ \E rec \in recipe_table :
          rec.id = response.target /\ rec.author # response.who

\* C10: update_comment and delete_comment on an existing comment succeed when
\* the requester is the comment's author or an ADMIN, and for every other
\* requester answer Forbidden and leave the comment and the ratings as they
\* were.
C10_AuthorOrAdminExactly ==
    [][\A c \in comment_table :
         (/\ response'.op \in {"update_comment", "delete_comment"}
          /\ response'.target = c.id)
           => IF c.author = response'.who \/ is_admin(response'.who)
              THEN response'.code = 200
              ELSE /\ response'.code = 403
                   /\ c \in comment_table'
                   /\ rating_table' = rating_table]_vars
\* C11: a request to change a report's status, to delete a report or to
\* change a user's role made by a requester whose stored role is not ADMIN
\* when the request arrives is refused and leaves reports and users as they
\* were; and whenever a stored report changes or disappears, or a stored role
\* changes, the step is such a request made by an ADMIN.
C11_AdminOnly ==
    [][ /\ (/\ response'.op \in {"update_report_status", "delete_report",
                                 "update_user_role"}
            /\ ~is_admin(response'.who))
           => (/\ response'.code # 200
               /\ response'.status # 200
               /\ report_table' = report_table
               /\ user_table' = user_table)
        /\ (\/ \E r \in report_table : r \notin report_table'
            \/ \E u \in user_table : \E v \in user_table' :
                    v.id = u.id /\ v.role # u.role)
           => (/\ response'.op \in {"update_report_status", "delete_report",
                                    "update_user_role"}
               /\ is_admin(response'.who)) ]_vars

\* a requester with role USER asked to reject an existing pending report and
\* was refused
C11_Witness ==
    /\ response.op = "update_report_status"
    /\ response.code = 403
    /\ response.input = <<"rejected">>
    /\ GetUserByUuid(response.who).role = "USER"
    /\ \E r \in report_table : r.id = response.target /\ r.status = "pending"

C13_ErrorsChangeNothing ==
    [][ (/\ response'.op \in {"add_recipe", "update_recipe",
                                "add_comment", "update_comment"}
         /\ response'.code \notin {200, 201})
        => (/\ recipe_table' = recipe_table
            /\ comment_table' = comment_table
            /\ rating_table' = rating_table) ]_vars

\* a comment with rating 3 on a recipe that is not stored was refused while a
\* user exists and no rating is stored
C13_Witness ==
    /\ response.op = "add_comment"
    /\ response.code = 500
    /\ response.input = <<RatingIn(3)>>
    /\ ~RecipeExists(response.target)
    /\ rating_table = {}

\* C14: a stored recipe none of whose ingredient entries has a non-empty
\* normalized name is in no answer of get_by_ingredients, whatever the query
\* list and the threshold, 0 included.
C14_NoIngredientNoMatch ==
    response.op = "get_by_ingredients"
    => \A rec \in recipe_table :
          RecipeIngredients(rec) = <<>> => rec.id \notin Returned

\* the query ran at threshold 0 and found nothing while the stored recipe has
\* ingredient entries and none of them has a name
C14_Witness ==
    /\ response.op = "get_by_ingredients"
    /\ response.code = 404
    /\ response.body = <<>>
    /\ response.input[2] = Frac(0, 1)
    /\ \E rec \in recipe_table :
          /\ rec.ingredients # <<>>
          /\ RecipeIngredients(rec) = <<>>

\* the place of a stored recipe in the list the store returns
StorePosition(recipe_id) ==
    CHOOSE k \in 1..Len(RowsById(recipe_table)) :
        RowsById(recipe_table)[k].id = recipe_id

\* C15: the list get_by_ingredients returns is ordered by non-increasing
\* match fraction, and two returned recipes with equal match fraction stand
\* in the order in which the store returned them.
C15_SortedStable ==
    (response.op = "get_by_ingredients" /\ response.code = 200)
    => \A i, j \in DOMAIN response.body :
          i < j =>
            LET first == GetRecipe(response.body[i].id)
                second == GetRecipe(response.body[j].id)
                m1 == MatchPercentage(first, response.input[1])
                m2 == MatchPercentage(second, response.input[1])
            IN  /\ FracGeq(m1, m2)
                /\ FracEq(m1, m2) => StorePosition(first.id) < StorePosition(second.id)

\* three recipes were returned: the first two match fully and stand in store
\* order, the third matches by half although it was stored first
C15_Witness ==
    /\ response.op = "get_by_ingredients"
    /\ response.code = 200
    /\ Len(response.body) = 3
    /\ response.body[1].id = 2
    /\ response.body[2].id = 3
    /\ response.body[3].id = 1
    /\ FracEq(MatchPercentage(GetRecipe(2), response.input[1]), Frac(1, 1))
    /\ FracEq(MatchPercentage(GetRecipe(3), response.input[1]), Frac(1, 1))
    /\ FracEq(MatchPercentage(GetRecipe(1), response.input[1]), Frac(1, 2))

\* C16: every recipe get_by_ingredients returns carries, in its response
\* object, the match fraction computed for it.
C16_MatchFractionAttached ==
    (response.op = "get_by_ingredients" /\ response.code = 200)
    => \A i \in DOMAIN response.body :
          /\ "match_percentage" \in DOMAIN response.body[i]
          /\ FracEq(response.body[i].match_percentage,
                    MatchPercentage(GetRecipe(response.body[i].id),
                                    response.input[1]))

\* C17: get_by_ingredients called with no caller ingredient, or with a
\* threshold below 0 or above 1, is refused with an error and returns no
\* recipe, whatever is stored.
C17_BadArgumentsRefused ==
    (/\ response.op = "get_by_ingredients"
     /\ \/ response.input[1] = <<>>
        \/ ~FracGeq(response.input[2], Frac(0, 1))
        \/ ~FracGeq(Frac(1, 1), response.input[2]))
    => (response.code \in {400, 500} /\ response.body = <<>>)

\* threshold 3/2 was refused although every stored recipe matches the query
\* in full
C17_Witness ==
    /\ response.op = "get_by_ingredients"
    /\ response.input = <<(<<T_Egg>>), Frac(3, 2)>>
    /\ response.code = 500
    /\ recipe_table # {}
    /\ \A rec \in recipe_table :
          FracEq(MatchPercentage(rec, <<T_Egg>>), Frac(1, 1))

\* C18: the by-tag query called with a tag returns every stored recipe that
\* was created with that tag, i.e. whose stored tags hold the tag as recipe
\* creation normalizes it (diacritics removed, lowercased).
C18_TagRoundTrip ==
    response.op = "get_by_tag"
    => \A rec \in recipe_table :
          (\E i \in 1..Len(rec.tags) :
               rec.tags[i] = NormalizeTag(response.input[1]))
          => rec.id \in Returned

\* C19: when the detection call fails (the connection, or an answer that
\* cannot be read) a request to create a recipe whose body is valid still
\* stores the recipe, with ai_detected 0.0.
C19_DetectionFailureTolerated ==
    [][ (/\ response'.op = "add_recipe"
         /\ response'.input[2] \in SaplingFailures
         /\ RecipeInAccepts(response'.input[1])
         /\ validate(RecipeIn(response'.input[1])))
        => (/\ response'.code = 200
            /\ \E rec \in recipe_table' \ recipe_table :
                  /\ rec.id = response'.body[1].id
                  /\ rec.ai_detected = Frac(0, 1)) ]_vars

\* a recipe was created while the detection service answered something that
\* is not JSON
C19_Witness ==
    /\ response.op = "add_recipe"
    /\ response.input = <<EggSoup, Sapling("not_json", NullAvg)>>
    /\ response.code = 200
    /\ \E rec \in recipe_table :
          rec.id = response.body[1].id /\ rec.ai_detected = Frac(0, 1)

\* C20: a request to create a report is refused, and stores nothing, when
\* neither recipe_id nor comment_id is given; it is accepted, and the report
\* stored, when at least one is given (and what is given exists); every
\* stored report has at least one of the two set.
C20_TargetRequired ==
    [][ response'.op = "create_report" =>
        LET recipe_id == response'.input[1]
            comment_id == response'.input[2]
            given == recipe_id # NULL \/ comment_id # NULL
            present == /\ (recipe_id = NULL \/ RecipeExists(recipe_id))
                       /\ (comment_id = NULL \/ GetComment(comment_id).id # NULL)
        IN  /\ ~given => (response'.status # 200 /\ report_table' = report_table)
            /\ (given /\ present) =>
                  /\ response'.status = 200
                  /\ \E report \in report_table' \ report_table :
                        /\ report.recipe_id = recipe_id
                        /\ report.comment_id = comment_id
            /\ \A report \in report_table' :
                  report.recipe_id # NULL \/ report.comment_id # NULL ]_vars

(***************************************************************************)
(* Registrations that overlap.                                             *)
(***************************************************************************)
NextRegister ==
    \/ RegisterUser
    \/ \E c \in Calls, email \in Emails, role \in UserRole :
           register_user_get_by_email(c, email, role)
    \/ \E c \in Calls : register_user_insert(c)

SpecRegister == Init /\ [][NextRegister]_vars

\* C21: no two stored users share an email, and a registration with an
\* email that is already registered creates no user and changes no user,
\* also when registrations with the same email overlap.
C21_EmailUnique ==
    [][ /\ \A u, v \in user_table' : u.email = v.email => u = v
        /\ (/\ response'.op = "register_user"
            /\ \E u \in user_table : u.email = response'.input[1])
           => user_table' = user_table ]_vars

\* a registration found the address free, another one stored it meanwhile,
\* and the first was refused at its INSERT
C21_Witness ==
    /\ response.op = "register_user"
    /\ response.code = 400
    /\ Len(response.input) = 3
    /\ response.input[3] = "insert"
    /\ Cardinality({u \in user_table : u.email = response.input[1]}) = 1

(***************************************************************************)
(* Recipe creation at the limits on the number of steps and of tags.       *)
(***************************************************************************)
NextLimits ==
    \/ RegisterFresh
    \/ \E u \in UserIds, body \in LimitInputs : add_recipe(u, body)
    \/ DeleteRecipe

SpecLimits == Init /\ [][NextLimits]_vars

\* C22: a request to create a recipe whose other fields are valid is
\* accepted when it has at most 50 steps and at most 20 tags, and refused
\* when it has more than 50 steps or more than 20 tags.
C22_StepAndTagLimits ==
    (/\ response.op = "add_recipe"
     /\ [response.input[1] EXCEPT !.steps = EggSoup.steps, !.tags = EggSoup.tags] = EggSoup)
    => LET body == response.input[1]
           within == Len(body.steps) <= 50 /\ Len(body.tags) <= 20
       IN  /\ within => response.status = 200
           /\ ~within => response.status # 200

(***************************************************************************)
(* The string normalizer on its own.                                       *)
(***************************************************************************)
T_latwy == <<"l", "a", "t", "w", "y">>
T_latwy_stroke == <<"l_stroke", "a", "t", "w", "y">>
NormalizerAlphabet == {"a", "l", "l_stroke", "L_stroke", "e_acute", "E", "trade_mark"}
NormalizerInputs ==
    (UNION { [1..n -> NormalizerAlphabet] : n \in 0..MaxText })
        \cup {T_latwy, T_latwy_stroke}

\* a call of RecipeMapper.normalize_string
call_normalize_string(s) ==
    /\ response' = Resp("normalize_string", NULL, NULL, <<s>>, 200, <<normalize_string(s)>>)
    /\ UNCHANGED <<user_table, recipe_table, rating_table, comment_table,
                   report_table, seq, in_flight>>

NextNormalize == \E s \in NormalizerInputs : call_normalize_string(s)

SpecNormalize == Init /\ [][NextNormalize]_vars

\* a letter without the diacritic it bears
BaseLetter(c) ==
    CASE c = "e_acute" -> "e"
      [] c = "E_acute" -> "E"
      [] c = "l_stroke" -> "l"
      [] c = "L_stroke" -> "L"
      [] OTHER -> c

\* C23: the normalizer maps a string with diacritic-bearing letters and the
\* same string with the plain base letters to the same result; in
\* particular "latwy" written with l-stroke and with l.
C23_DiacriticsStripped ==
    response.op = "normalize_string" =>
        LET s == response.input[1]
            plain == [i \in 1..Len(s) |-> BaseLetter(s[i])]
        IN  response.body[1] = normalize_string(plain)

\* C24: the normalizer is idempotent: normalizing what it returned returns
\* the same string.
C24_NormalizerIdempotent ==
    response.op = "normalize_string" =>
        normalize_string(response.body[1]) = response.body[1]

\* C25: every user a registration creates has role USER, and a stored user
\* becomes ADMIN only by a role update that an administrator requested.
C25_AdminOnlyByAdmin ==
    [][ /\ \A u \in user_table' :
              (u.id \notin {v.id : v \in user_table}) => u.role = "USER"
        /\ \A u \in user_table' : \A v \in user_table :
              (u.id = v.id /\ u.role = "ADMIN" /\ v.role # "ADMIN")
                  => (response'.op = "update_user_role" /\ is_admin(response'.who)) ]_vars

(***************************************************************************)
(* Status updates that overlap.                                            *)
(***************************************************************************)
NextStatusRace ==
    \/ RegisterFresh
    \/ AddEggSoup
    \/ CreateRecipeReport
    \/ DeleteReport
    \/ \E c \in Calls, u \in UserIds, id \in ReportIds, status \in ReportStatus,
          note \in Notes :
           update_report_status_get_by_id(c, u, id, status, note)
    \/ \E c \in Calls : update_report_status_update_status(c)

SpecStatusRace == Init /\ [][NextStatusRace]_vars

\* C26: when status updates of one report overlap, a report that a request
\* has set to resolved never has another status afterwards.
C26_ResolvedStaysUnderRace ==
    [][ \A r \in report_table : \A after \in report_table' :
            (r.id = after.id /\ r.status = "resolved") => after.status = "resolved" ]_vars

\* C30: a report whose status is pending has no resolver, no resolution
\* note and no resolution time, whatever status updates came before.
C30_PendingHasNoResolution ==
    \A r \in report_table :
        r.status = "pending" =>
            /\ r.resolved_by = NULL
            /\ r.resolution_note = NoText
            /\ r.resolved_at = NoTime

(***************************************************************************)
(* Rated comments that overlap.                                            *)
(***************************************************************************)
NextCommentRace ==
    \/ RegisterFresh
    \/ AddEggSoup
    \/ \E c \in Calls, u \in UserIds, r \in RecipeIds, content \in Contents,
          rating \in {RatingIn(4), RatingIn(5)} :
           add_comment_fetch_rating(c, u, r, content, rating)
    \/ \E c \in Calls : add_comment_write(c)

SpecCommentRace == Init /\ [][NextCommentRace]_vars

\* C27: when rated comments of one author on one recipe overlap, exactly
\* one rating of that author on that recipe is stored once they are done.
C27_OneRatingUnderRace ==
    (/\ response.op = "add_comment"
     /\ response.code = 200
     /\ \A c \in Calls : in_flight[c] = Idle)
    => Cardinality({ r \in rating_table :
                       r.author = response.who /\ r.recipe_id = response.target }) = 1

\* C28: a comment update or deletion that succeeds leaves every other
\* comment as it was: its content, its rating link and the value of the
\* rating it links to.
C28_OtherCommentsUntouched ==
    [][ (/\ response'.op \in {"update_comment", "delete_comment"}
         /\ response'.code = 200)
        => \A other \in comment_table :
             other.id # response'.target =>
               /\ other \in comment_table'
               /\ \A r \in rating_table :
                     r.id = other.rating_id => r \in rating_table' ]_vars

\* C29: after a recipe update that succeeded, the stored recipe has the
\* steps and the tags of the request, and the author and the creation time
\* it had before.
C29_UpdateStoresStepsAndTags ==
    [][ (response'.op = "update_recipe" /\ response'.code = 200)
        => \E before \in recipe_table, after \in recipe_table' :
             /\ before.id = response'.target
             /\ after.id = response'.target
             /\ after.steps = RecipeIn(response'.input[1]).steps
             /\ after.tags = RecipeIn(response'.input[1]).tags
             /\ after.author = before.author
             /\ after.created_at = before.created_at ]_vars

====
